---- MODULE Spec2Model ----
(***************************************************************************)
(* A model of package brief (src/brief.go): signed tokens with an expiry.  *)
(*                                                                         *)
(* Byte slices are sequences of 0..255, strings are sequences of           *)
(* one-character strings, a time.Time is a record of its Unix second, its  *)
(* sub-second part and its Location.  The standard-library calls the       *)
(* package makes (base64.RawURLEncoding, Time.Format, time.ParseInLocation,*)
(* strings.Split, hmac, sync.Once, rand.Read) are modelled by what they    *)
(* compute.                                                                *)
(***************************************************************************)
EXTENDS Integers, Sequences, FiniteSets, TLC

(***************************************************************************)
(* Generic helpers on sequences.                                           *)
(***************************************************************************)
Range(s) == {s[i] : i \in 1..Len(s)}

IndexOf(s, x) == CHOOSE i \in 1..Len(s) : s[i] = x

Repeat(x, n) == [i \in 1..n |-> x]

\* the tail of s from position i on
From(s, i) == SubSeq(s, i, Len(s))

(***************************************************************************)
(* base64.RawURLEncoding: the URL-safe alphabet of RFC 4648, no padding.   *)
(***************************************************************************)
encodeURL ==
    <<"A","B","C","D","E","F","G","H","I","J","K","L","M","N","O","P",
      "Q","R","S","T","U","V","W","X","Y","Z","a","b","c","d","e","f",
      "g","h","i","j","k","l","m","n","o","p","q","r","s","t","u","v",
      "w","x","y","z","0","1","2","3","4","5","6","7","8","9","-","_">>

\* the character of a 6-bit value
B64Char(v) == encodeURL[v + 1]

\* the 6-bit value of a character of the alphabet
B64Val(c) == IndexOf(encodeURL, c) - 1

\* Encoding.EncodeToString: 3 bytes make 4 characters; a remainder of one
\* byte makes 2 characters and of two bytes 3 characters (no padding).
RECURSIVE EncodeToString(_)
EncodeToString(b) ==
    IF Len(b) = 0 THEN <<>>
    ELSE IF Len(b) = 1 THEN
        <<B64Char(b[1] \div 4), B64Char((b[1] % 4) * 16)>>
    ELSE IF Len(b) = 2 THEN
        <<B64Char(b[1] \div 4),
          B64Char((b[1] % 4) * 16 + b[2] \div 16),
          B64Char((b[2] % 16) * 4)>>
    ELSE
        <<B64Char(b[1] \div 4),
          B64Char((b[1] % 4) * 16 + b[2] \div 16),
          B64Char((b[2] % 16) * 4 + b[3] \div 64),
          B64Char(b[3] % 64)>> \o EncodeToString(From(b, 4))

\* Encode (brief.go)
Encode(data) == EncodeToString(data)

\* The decoder skips carriage returns and line feeds wherever they stand.
RECURSIVE StripNewlines(_)
StripNewlines(s) ==
    IF Len(s) = 0 THEN <<>>
    ELSE IF s[1] \in {"\n", "\r"} THEN StripNewlines(Tail(s))
    ELSE <<s[1]>> \o StripNewlines(Tail(s))

\* the bytes of a sequence of 6-bit values whose length is not 1 modulo 4;
\* the unused low bits of a final partial group are dropped (the encoding
\* is not Strict)
RECURSIVE DecodeQuanta(_)
DecodeQuanta(v) ==
    IF Len(v) = 0 THEN <<>>
    ELSE IF Len(v) = 2 THEN
        <<v[1] * 4 + v[2] \div 16>>
    ELSE IF Len(v) = 3 THEN
        <<v[1] * 4 + v[2] \div 16, (v[2] % 16) * 16 + v[3] \div 4>>
    ELSE
        <<v[1] * 4 + v[2] \div 16,
          (v[2] % 16) * 16 + v[3] \div 4,
          (v[3] % 4) * 64 + v[4]>> \o DecodeQuanta(From(v, 5))

\* Encoding.DecodeString: [ok, bytes].  A character outside the alphabet
\* (the padding character included) or a lone trailing character is a
\* CorruptInputError.
DecodeString(s) ==
    LET t == StripNewlines(s) IN
    IF \E i \in 1..Len(t) : t[i] \notin Range(encodeURL)
        THEN [ok |-> FALSE, bytes |-> <<>>]
    ELSE IF Len(t) % 4 = 1
        THEN [ok |-> FALSE, bytes |-> <<>>]
    ELSE [ok |-> TRUE,
          bytes |-> DecodeQuanta([i \in 1..Len(t) |-> B64Val(t[i])])]

(***************************************************************************)
(* strings.Split(s, sep): the pieces of s between the separators; a string *)
(* with n separators has n + 1 pieces, the empty string has one.           *)
(***************************************************************************)
sep == "."

RECURSIVE SplitFrom(_, _, _)
SplitFrom(s, i, cur) ==
    IF i > Len(s) THEN <<cur>>
    ELSE IF s[i] = sep THEN <<cur>> \o SplitFrom(s, i + 1, <<>>)
    ELSE SplitFrom(s, i + 1, Append(cur, s[i]))

Split(s) == SplitFrom(s, 1, <<>>)

(***************************************************************************)
(* package time.  A Time is [sec, sub, loc]: the Unix second, the part of  *)
(* a second in units of 1/SubPerSec, and the Location it carries, "UTC" or *)
(* "Local".  time.Local is the zone the process runs in (the variable      *)
(* localZone, fixed at start-up).                                          *)
(***************************************************************************)
VARIABLES localZone

\* the resolution of the model's clock: units per second
SubPerSec == 2

MinUnix == -2147483647
MaxUnix == 2147483647

\* The zone tables (tzdata): the offset before the first transition and the
\* transitions [at, off].  Europe/Berlin for 2024: summer time from
\* 2024-03-31 01:00 UTC to 2024-10-27 01:00 UTC.
ZoneNames == {"UTC", "Berlin"}

ZoneInitial(z) == IF z = "Berlin" THEN 3600 ELSE 0

ZoneTx(z) ==
    IF z = "Berlin"
        THEN <<[at |-> 1711846800, off |-> 7200],
               [at |-> 1729990800, off |-> 3600]>>
        ELSE <<>>

\* Location.lookup: the offset in force at Unix second s and the span
\* [start, end) of seconds over which it is in force
lookup(z, s) ==
    LET tx == ZoneTx(z)
        before == {i \in 1..Len(tx) : tx[i].at <= s}
        k == IF before = {} THEN 0
             ELSE CHOOSE i \in before : \A j \in before : j <= i
    IN  [offset |-> IF k = 0 THEN ZoneInitial(z) ELSE tx[k].off,
         start  |-> IF k = 0 THEN MinUnix ELSE tx[k].at,
         end    |-> IF k = Len(tx) THEN MaxUnix ELSE tx[k + 1].at]

\* the zone a Time's Location stands for
ZoneOf(loc) == IF loc = "Local" THEN localZone ELSE "UTC"

\* Time.Unix
Unix(t) == t.sec

\* Time.After
After(t, u) == t.sec > u.sec \/ (t.sec = u.sec /\ t.sub > u.sub)

\* Time.Add, the duration in units of 1/SubPerSec
Add(t, d) ==
    LET n == t.sub + d
    IN  [sec |-> t.sec + n \div SubPerSec, sub |-> n % SubPerSec,
         loc |-> t.loc]

\* Time.Truncate(time.Second)
TruncateSecond(t) == [t EXCEPT !.sub = 0]

\* the proleptic Gregorian calendar: day number (days since 1970-01-01) of
\* a civil date, and back
DaysFromCivil(y, m, d) ==
    LET yy  == IF m <= 2 THEN y - 1 ELSE y
        era == yy \div 400
        yoe == yy - era * 400
        mp  == IF m > 2 THEN m - 3 ELSE m + 9
        doy == (153 * mp + 2) \div 5 + d - 1
        doe == yoe * 365 + yoe \div 4 - yoe \div 100 + doy
    IN  era * 146097 + doe - 719468

CivilFromDays(z) ==
    LET zz  == z + 719468
        era == zz \div 146097
        doe == zz - era * 146097
        yoe == (doe - doe \div 1460 + doe \div 36524 - doe \div 146096) \div 365
        doy == doe - (365 * yoe + yoe \div 4 - yoe \div 100)
        mp  == (5 * doy + 2) \div 153
        d   == doy - (153 * mp + 2) \div 5 + 1
        m   == IF mp < 10 THEN mp + 3 ELSE mp - 9
        y   == yoe + era * 400 + (IF m <= 2 THEN 1 ELSE 0)
    IN  [year |-> y, month |-> m, day |-> d]

isLeap(y) == y % 4 = 0 /\ (y % 100 # 0 \/ y % 400 = 0)

daysIn(m, y) ==
    IF m = 2 THEN (IF isLeap(y) THEN 29 ELSE 28)
    ELSE IF m \in {4, 6, 9, 11} THEN 30 ELSE 31

\* time.Date(year, month, day, hour, min, sec, nsec, loc) for in-range
\* fields: the wall clock is first read as if it were UTC, the offset found
\* there is subtracted, and when the result falls outside the span of that
\* offset the offset in force at the result is used instead.
Date(y, mo, d, h, mi, s, sub, z) ==
    LET unix == DaysFromCivil(y, mo, d) * 86400 + h * 3600 + mi * 60 + s
        l    == lookup(z, unix)
        utc  == unix - l.offset
        off  == IF l.offset = 0 THEN 0
                ELSE IF utc < l.start \/ utc >= l.end
                    THEN lookup(z, utc).offset
                ELSE l.offset
    IN  [sec |-> unix - off, sub |-> sub, loc |-> "Local"]

digits == <<"0","1","2","3","4","5","6","7","8","9">>

isDigit(s, i) == i <= Len(s) /\ s[i] \in Range(digits)

DigitVal(c) == IndexOf(digits, c) - 1

Pad2(n) == <<digits[((n \div 10) % 10) + 1], digits[(n % 10) + 1]>>

\* timeLayout = "20060102150405": the year in 4 digits, then month, day,
\* hour, minute and second in 2 digits each.
\* Time.Format(timeLayout): the wall clock of t in t's own Location.
Format(t) ==
    LET wall == t.sec + lookup(ZoneOf(t.loc), t.sec).offset
        c    == CivilFromDays(wall \div 86400)
        r    == wall % 86400
    IN  Pad2(c.year \div 100) \o Pad2(c.year % 100) \o Pad2(c.month)
        \o Pad2(c.day) \o Pad2(r \div 3600) \o Pad2((r % 3600) \div 60)
        \o Pad2(r % 60)

\* getnum(s, fixed): one or two leading digits as a number ([ok, n, rest]);
\* fixed demands two
getnum(s, fixed) ==
    IF ~isDigit(s, 1) THEN [ok |-> FALSE, n |-> 0, rest |-> s]
    ELSE IF ~isDigit(s, 2) THEN
        IF fixed THEN [ok |-> FALSE, n |-> 0, rest |-> s]
        ELSE [ok |-> TRUE, n |-> DigitVal(s[1]), rest |-> From(s, 2)]
    ELSE [ok |-> TRUE, n |-> DigitVal(s[1]) * 10 + DigitVal(s[2]),
          rest |-> From(s, 3)]

\* the number of digits s starts with
RECURSIVE LeadingDigits(_)
LeadingDigits(s) ==
    IF isDigit(s, 1) THEN 1 + LeadingDigits(Tail(s)) ELSE 0

\* A fractional second after the seconds field is accepted although the
\* layout has none: a period or a comma followed by digits.  [sub, rest]:
\* the fraction in units of 1/SubPerSec (from its first two digits) and the
\* text that follows it.
parseFraction(s) ==
    IF Len(s) >= 2 /\ s[1] \in {".", ","} /\ isDigit(s, 2) THEN
        LET n  == LeadingDigits(Tail(s))
            d1 == DigitVal(s[2])
            d2 == IF n >= 2 THEN DigitVal(s[3]) ELSE 0
        IN  [sub |-> ((d1 * 10 + d2) * SubPerSec) \div 100,
             rest |-> From(s, n + 2)]
    ELSE [sub |-> 0, rest |-> s]

\* time.ParseInLocation(timeLayout, value, time.Local): [ok, t].  The
\* fields are read in the layout's order and the first that cannot be read
\* or is out of range ends the parse; text left over and a day the month
\* does not have are errors too.
ParseInLocation(value) ==
    LET bad == [ok |-> FALSE, t |-> [sec |-> 0, sub |-> 0, loc |-> "UTC"]]
    IN
    IF Len(value) < 4 \/ \E i \in 1..4 : ~isDigit(value, i) THEN bad
    ELSE
    LET year == DigitVal(value[1]) * 1000 + DigitVal(value[2]) * 100
                + DigitVal(value[3]) * 10 + DigitVal(value[4])
        mo   == getnum(From(value, 5), TRUE)
    IN
    IF ~mo.ok \/ mo.n <= 0 \/ 12 < mo.n THEN bad
    ELSE
    LET dy == getnum(mo.rest, TRUE) IN
    IF ~dy.ok THEN bad
    ELSE
    LET hr == getnum(dy.rest, FALSE) IN
    IF ~hr.ok \/ 24 <= hr.n THEN bad
    ELSE
    LET mi == getnum(hr.rest, TRUE) IN
    IF ~mi.ok \/ 60 <= mi.n THEN bad
    ELSE
    LET sc == getnum(mi.rest, TRUE) IN
    IF ~sc.ok \/ 60 <= sc.n THEN bad
    ELSE
    LET fr == parseFraction(sc.rest) IN
    IF Len(fr.rest) > 0 THEN bad
    ELSE IF dy.n < 1 \/ dy.n > daysIn(mo.n, year) THEN bad
    ELSE [ok |-> TRUE,
          t |-> Date(year, mo.n, dy.n, hr.n, mi.n, sc.n, fr.sub, localZone)]

(***************************************************************************)
(* Tokens and their serialization.                                         *)
(***************************************************************************)
\* the zero time.Time (year 1): before every time of the model
ZeroTime == [sec |-> MinUnix, sub |-> 0, loc |-> "UTC"]

\* Token{}
ZeroToken == [Data |-> <<>>, Expiry |-> ZeroTime, Signature |-> <<>>]

\* an error is the set of sentinel errors it wraps (what errors.Is finds);
\* nil wraps none
NoErr == {}
ErrParseFormat == {"ErrParse", "ErrFormat"}
ErrParseData == {"ErrParse", "ErrDecoding", "ErrFieldData"}
ErrParseExpiry == {"ErrParse", "ErrFieldExpiry"}
ErrParseSignature == {"ErrParse", "ErrDecoding", "ErrFieldSignature"}
ErrVerifySignature == {"ErrVerifySignature"}
ErrVerifyExpiry == {"ErrVerifyExpiry"}
\* what Generate returns when rand.Read fails
ErrRandRead == {"rand.Read"}
\* not an error value: the call panicked
Panicked == {"panic"}

\* Token.String
String(t) ==
    Encode(t.Data) \o <<sep>> \o Format(t.Expiry) \o <<sep>>
    \o Encode(t.Signature)

\* a FromString that decodes the signature before it parses the expiry
FromStringSignatureFirst(s) ==
    LET parts == Split(s) IN
    IF Len(parts) # 3 THEN [tok |-> ZeroToken, err |-> ErrParseFormat]
    ELSE
    LET data == DecodeString(parts[1]) IN
    IF ~data.ok THEN [tok |-> ZeroToken, err |-> ErrParseData]
    ELSE
    LET t1  == [ZeroToken EXCEPT !.Data = data.bytes]
        sig == DecodeString(parts[3])
    IN
    IF ~sig.ok THEN [tok |-> t1, err |-> ErrParseSignature]
    ELSE
    LET t2     == [t1 EXCEPT !.Signature = sig.bytes]
        expiry == ParseInLocation(parts[2])
    IN
    IF ~expiry.ok THEN [tok |-> t2, err |-> ErrParseExpiry]
    ELSE [tok |-> [t2 EXCEPT !.Expiry = expiry.t], err |-> NoErr]

\* FromString: [tok, err]; the fields are decoded in the order Data,
\* Expiry, Signature, and the first that fails ends the parse with the
\* fields before it set
FromString(s) ==
    LET parts == Split(s) IN
    IF Len(parts) # 3 THEN [tok |-> ZeroToken, err |-> ErrParseFormat]
    ELSE
    LET data == DecodeString(parts[1]) IN
    IF ~data.ok THEN [tok |-> ZeroToken, err |-> ErrParseData]
    ELSE
    LET t1     == [ZeroToken EXCEPT !.Data = data.bytes]
        expiry == ParseInLocation(parts[2])
    IN
    IF ~expiry.ok THEN [tok |-> t1, err |-> ErrParseExpiry]
    ELSE
    LET t2  == [t1 EXCEPT !.Expiry = expiry.t]
        sig == DecodeString(parts[3])
    IN
    IF ~sig.ok THEN [tok |-> t2, err |-> ErrParseSignature]
    ELSE [tok |-> [t2 EXCEPT !.Signature = sig.bytes], err |-> NoErr]

(***************************************************************************)
(* The signature: HMAC-SHA256 keyed with the secret over the payload       *)
(* followed by the 8 bytes of the Unix second.  SHA-256 is idealised as    *)
(* free of collisions: the digest of a message stands for the message.     *)
(* HMAC's treatment of the key is kept: a key longer than the hash's block *)
(* is replaced by its digest, a shorter one is padded with zero bytes.     *)
(* The block size (64) and the generated secret's length (256) are scaled  *)
(* down, the secret staying longer than the block.                         *)
(***************************************************************************)
BlockSize == 2
SecretLen == 3

\* the length of timeBuf
TimeBufLen == 8

\* binary.BigEndian.PutUint64(timeBuf, uint64(n)) for an int64 n within
\* 32 bits: the high 4 bytes are the sign extension
PutUint64(n) ==
    Repeat(IF n < 0 THEN 255 ELSE 0, TimeBufLen - 4)
    \o <<(n \div 16777216) % 256, (n \div 65536) % 256,
         (n \div 256) % 256, n % 256>>

\* the key block hmac.New derives from the key
KeyBlock(key) ==
    IF Len(key) > BlockSize THEN key
    ELSE key \o Repeat(0, BlockSize - Len(key))

\* hash.Write(data); hash.Write(timeBuf); hash.Sum(nil): the digest stands
\* for the pair of the key block (led by its length) and the text written
MacSum(key, data, timeBuf) ==
    <<Len(KeyBlock(key))>> \o KeyBlock(key) \o data \o timeBuf

(***************************************************************************)
(* The state.  Mints and callers (goroutines) are fixed sets; a Mint that  *)
(* was not constructed takes no calls.  A byte slice held by a Mint is a   *)
(* reference into mem: NewMint keeps the caller's slice, it does not copy. *)
(***************************************************************************)
Mints == {"m1", "m2"}
Callers == {"c1", "c2"}

\* a nil byte slice (no byte sequence holds -1) and a nil reference
NIL == <<-1>>
NilRef == <<"nil", "nil">>
NONE == "none"

\* the slice passed to NewMint(m) and the slice m makes for itself
ArgRef(m) == <<"arg", m>>
GenRef(m) == <<"gen", m>>
Refs == {ArgRef(m) : m \in Mints} \cup {GenRef(m) : m \in Mints}

VARIABLES
    elapsed,    \* the clock: units of 1/SubPerSec since StartTime
    ctor,       \* ctor[m]: "none", "zero" (Mint{}) or "NewMint"
    arg,        \* arg[m]: the bytes NewMint was given (NIL for none)
    secret,     \* Mint.secret: NilRef or a reference into mem
    mem,        \* the backing arrays of the secrets
    onceDone,   \* Mint.once: its done flag
    onceM,      \* Mint.once: the caller holding its mutex, or NONE
    pc,         \* pc[c]: where caller c stands in its call
    frame,      \* frame[c]: the call c is in
    last,       \* what the call that returned last returned
    calls,      \* the number of calls still to be made
    issued,     \* history: the tokens Sign and Generate returned, by Mint
    macLog,     \* history: the keys the MACs were computed with, by Mint
    raced,      \* history: a caller waited at m's Once as the secret was made
    genCount,   \* history: genCount[m] secrets were generated for m
    written,    \* history: the caller wrote to the slice it gave NewMint(m)
    codec       \* the codec's scratch: a token, its string, the parse

mintVars == <<ctor, arg, secret, mem, onceDone, onceM, genCount, written>>
callVars == <<pc, frame, last, calls, issued, macLog, raced>>
vars == <<localZone, elapsed, mintVars, callVars, codec>>

(***************************************************************************)
(* The bounds and the inputs of the model.                                 *)
(***************************************************************************)
\* calls made in one behaviour: of the one caller, and of the callers at
\* once
MaxCalls == 2
MaxConcCalls == 3
\* the clock stops after this many units
MaxTicks == 2
\* time.Now() at the start: 2024-10-25 23:46:40 UTC
StartTime == 1729900000

\* payloads given to Sign
Payloads == {<<>>, <<46>>}
\* lengths given to Generate, and the bytes rand.Read draws for a payload
DataLens == {1}
PayloadBytes == {5}
\* the bytes rand.Read draws for a secret, and what it has written when
\* it fails: nothing, or all but the last byte
RandBytes == {7, 9}
PartialReads == {<<>>, Repeat(7, SecretLen - 1)}
\* the secrets NewMint is given: none, the empty one and an ordinary one
SecretArgs == {NIL, <<>>, <<107>>}
\* the secrets of the Mint of the one-Mint specifications
InitSecrets == {<<>>, <<107>>}
\* the expiries given to Sign and Generate: one unit past a whole second
\* in the local zone, and the next whole second in UTC
Start == [sec |-> StartTime, sub |-> 0, loc |-> "Local"]
Expiries == {Add(Start, 1), [Add(Start, SubPerSec) EXCEPT !.loc = "UTC"]}
\* the amounts a caller adds to a token's expiry before verifying it
Increments == {1, SubPerSec}

\* time.Now()
Now == Add(Start, elapsed)

(***************************************************************************)
(* Construction.                                                           *)
(***************************************************************************)
NoFrame == [op |-> NONE, m |-> NONE, tok |-> ZeroToken, str |-> <<>>,
            at |-> ZeroTime]

NoResult == [op |-> NONE, m |-> NONE, inTok |-> ZeroToken, str |-> <<>>,
             at |-> ZeroTime, tok |-> ZeroToken, err |-> NoErr]

\* the callers, the clock and the histories at the start
InitCalls ==
    /\ elapsed = 0
    /\ pc = [c \in Callers |-> "idle"]
    /\ frame = [c \in Callers |-> NoFrame]
    /\ last = NoResult
    /\ issued = {}
    /\ macLog = {}
    /\ raced = [m \in Mints |-> FALSE]
    /\ genCount = [m \in Mints |-> 0]
    /\ written = [m \in Mints |-> FALSE]
    /\ onceDone = [m \in Mints |-> FALSE]
    /\ onceM = [m \in Mints |-> NONE]

\* no Mint constructed yet
InitMints ==
    /\ ctor = [m \in Mints |-> "none"]
    /\ arg = [m \in Mints |-> NIL]
    /\ secret = [m \in Mints |-> NilRef]
    /\ mem = [r \in Refs |-> <<>>]

NoCodec == [step |-> "start", from |-> NONE, tok |-> ZeroToken,
            str |-> <<>>, out |-> [tok |-> ZeroToken, err |-> NoErr]]

\* a NewMint that does not keep the secret it is given
NewMintDropsSecret(m, s) ==
    /\ ctor[m] = "none"
    /\ ctor' = [ctor EXCEPT ![m] = "NewMint"]
    /\ arg' = [arg EXCEPT ![m] = s]
    /\ secret' = [secret EXCEPT ![m] = NilRef]
    /\ mem' = [mem EXCEPT ![ArgRef(m)] = IF s = NIL THEN <<>> ELSE s]
    /\ UNCHANGED <<localZone, elapsed, onceDone, onceM, genCount, written,
                   callVars, codec>>

\* NewMint(s): the Mint holds the slice it is given
NewMint(m, s) ==
    /\ ctor[m] = "none"
    /\ ctor' = [ctor EXCEPT ![m] = "NewMint"]
    /\ arg' = [arg EXCEPT ![m] = s]
    /\ secret' = [secret EXCEPT ![m] = IF s = NIL THEN NilRef ELSE ArgRef(m)]
    /\ mem' = [mem EXCEPT ![ArgRef(m)] = IF s = NIL THEN <<>> ELSE s]
    /\ UNCHANGED <<localZone, elapsed, onceDone, onceM, genCount, written,
                   callVars, codec>>

\* the caller writes to the slice it passed to NewMint
CallerWrites(m) ==
    /\ ctor[m] = "NewMint"
    /\ arg[m] # NIL
    /\ Len(mem[ArgRef(m)]) > 0
    /\ ~written[m]
    /\ \A c \in Callers : pc[c] = "idle"
    /\ mem' = [mem EXCEPT ![ArgRef(m)][1] = (@ + 1) % 256]
    /\ written' = [written EXCEPT ![m] = TRUE]
    /\ UNCHANGED <<localZone, elapsed, ctor, arg, secret, onceDone, onceM,
                   genCount, callVars, codec>>

(***************************************************************************)
(* The calls.  A call on a Mint starts when its caller is idle; it runs    *)
(* through createSignature's steps (the Once, the generation of a secret,  *)
(* the MAC) and returns by writing last.                                   *)
(***************************************************************************)
Live(m) == ctor[m] # "none"

CanCall(c, m) == pc[c] = "idle" /\ Live(m) /\ calls > 0

Return(c, r) ==
    /\ last' = r
    /\ pc' = [pc EXCEPT ![c] = "idle"]
    /\ frame' = [frame EXCEPT ![c] = NoFrame]

\* entering createSignature
Enter(c, f) ==
    /\ frame' = [frame EXCEPT ![c] = f]
    /\ pc' = [pc EXCEPT ![c] = "once"]
    /\ UNCHANGED last

\* Mint.Sign(data, expires)
Sign(c, m, data, expires) ==
    /\ CanCall(c, m)
    /\ calls' = calls - 1
    /\ Enter(c, [op |-> "Sign", m |-> m, str |-> <<>>, at |-> ZeroTime,
                 tok |-> [Data |-> data, Expiry |-> expires,
                          Signature |-> <<>>]])
    /\ UNCHANGED <<localZone, elapsed, mintVars, issued, macLog,
                   raced, codec>>

\* Mint.Generate(dataLen, expires): rand.Read fills the payload and
\* Generate goes on as Sign does, or rand.Read fails and Generate returns
\* its error with Token{}
Generate(c, m, dataLen, expires) ==
    /\ CanCall(c, m)
    /\ calls' = calls - 1
    /\ \/ \E r \in PayloadBytes :
            Enter(c, [op |-> "Generate", m |-> m, str |-> <<>>,
                      at |-> ZeroTime,
                      tok |-> [Data |-> Repeat(r, dataLen),
                               Expiry |-> expires, Signature |-> <<>>]])
       \/ Return(c, [NoResult EXCEPT !.op = "Generate", !.m = m,
                                      !.inTok.Expiry = expires,
                                      !.err = ErrRandRead])
    /\ UNCHANGED <<localZone, elapsed, mintVars, issued, macLog,
                   raced, codec>>

\* a check of the expiry that refuses a token at the instant it expires
ExpiredAtExpiry(at, b) == ~After(b.Expiry, at)

\* Verify's check of the expiry at time at: at.After(b.Expiry)
Expired(at, b) == After(at, b.Expiry)

\* a Verify that computes the signature whatever the expiry
VerifyBodySignatureFirst(c, m, op, str, b) ==
    Enter(c, [op |-> op, m |-> m, str |-> str, at |-> Now, tok |-> b])

\* Mint.Verify(b), for the call op that runs it: an expiry before
\* time.Now() ends it at once, else the signature is computed
VerifyBody(c, m, op, str, b) ==
    IF Expired(Now, b)
        THEN Return(c, [op |-> op, m |-> m, inTok |-> b, str |-> str,
                        at |-> Now, tok |-> b, err |-> ErrVerifyExpiry])
        ELSE Enter(c, [op |-> op, m |-> m, str |-> str, at |-> Now,
                       tok |-> b])

\* Mint.Verify(b)
Verify(c, m, b) ==
    /\ CanCall(c, m)
    /\ calls' = calls - 1
    /\ VerifyBody(c, m, "Verify", <<>>, b)
    /\ UNCHANGED <<localZone, elapsed, mintVars, issued, macLog,
                   raced, codec>>

\* Mint.VerifyString(s)
VerifyString(c, m, s) ==
    /\ CanCall(c, m)
    /\ calls' = calls - 1
    /\ LET p == FromString(s) IN
       IF p.err # NoErr
           THEN Return(c, [op |-> "VerifyString", m |-> m,
                           inTok |-> ZeroToken, str |-> s, at |-> ZeroTime,
                           tok |-> p.tok, err |-> p.err])
           ELSE VerifyBody(c, m, "VerifyString", s, p.tok)
    /\ UNCHANGED <<localZone, elapsed, mintVars, issued, macLog,
                   raced, codec>>

\* a MAC over the payload alone
createSignatureNoExpiry(key, data, expires) ==
    MacSum(key, data, PutUint64(0))

\* createSignature's MAC over (data, expires) with the bytes of the secret
createSignature(key, data, expires) ==
    MacSum(key, data, PutUint64(Unix(expires)))

\* hmac.Equal
Equal(a, b) == a = b

\* a fast path that runs the generation again
OnceDoneGeneratesAgain(c) ==
    /\ pc[c] = "once"
    /\ onceDone[frame[c].m]
    /\ pc' = [pc EXCEPT ![c] =
                IF secret[frame[c].m] = GenRef(frame[c].m) THEN "read"
                ELSE "mac"]
    /\ UNCHANGED <<localZone, elapsed, mintVars, frame, last, calls,
                   issued, macLog, raced, codec>>

\* once.Do, fast path: the Once is done
OnceDone(c) ==
    /\ pc[c] = "once"
    /\ onceDone[frame[c].m]
    /\ pc' = [pc EXCEPT ![c] = "mac"]
    /\ UNCHANGED <<localZone, elapsed, mintVars, frame, last, calls,
                   issued, macLog, raced, codec>>

\* once.Do, slow path, of a Mint that holds a secret: the caller takes the
\* Once's mutex, finds m.secret set, and leaves with the Once done
OnceSecretSet(c) ==
    LET m == frame[c].m IN
    /\ pc[c] = "once"
    /\ ~onceDone[m]
    /\ onceM[m] = NONE
    /\ secret[m] # NilRef
    /\ onceDone' = [onceDone EXCEPT ![m] = TRUE]
    /\ pc' = [pc EXCEPT ![c] = "mac"]
    /\ UNCHANGED <<localZone, elapsed, ctor, arg, secret, mem, onceM,
                   genCount, written, frame, last, calls, issued,
                   macLog, raced, codec>>

\* a slow path without the Once's mutex: every caller that finds the Once
\* not done makes a secret
OnceMakeSecretNoMutex(c) ==
    LET m == frame[c].m IN
    /\ pc[c] = "once"
    /\ ~onceDone[m]
    /\ arg[m] = NIL
    /\ onceM' = [onceM EXCEPT ![m] = c]
    /\ secret' = [secret EXCEPT ![m] = GenRef(m)]
    /\ mem' = [mem EXCEPT ![GenRef(m)] = Repeat(0, SecretLen)]
    /\ genCount' = [genCount EXCEPT ![m] = @ + 1]
    /\ pc' = [pc EXCEPT ![c] = "read"]
    /\ UNCHANGED <<localZone, elapsed, ctor, arg, onceDone, written, frame,
                   last, calls, issued, macLog, raced, codec>>

\* once.Do, slow path, of a Mint without a secret: the caller takes the
\* mutex (the others wait for it) and makes the slice,
\* m.secret = make([]byte, 256)
OnceMakeSecret(c) ==
    LET m == frame[c].m IN
    /\ pc[c] = "once"
    /\ ~onceDone[m]
    /\ onceM[m] = NONE
    /\ secret[m] = NilRef
    /\ onceM' = [onceM EXCEPT ![m] = c]
    /\ secret' = [secret EXCEPT ![m] = GenRef(m)]
    /\ mem' = [mem EXCEPT ![GenRef(m)] = Repeat(0, SecretLen)]
    /\ genCount' = [genCount EXCEPT ![m] = @ + 1]
    /\ pc' = [pc EXCEPT ![c] = "read"]
    /\ UNCHANGED <<localZone, elapsed, ctor, arg, onceDone, written, frame,
                   last, calls, issued, macLog, raced, codec>>

\* some caller stands at m's Once
Waiting(m) == \E d \in Callers : pc[d] = "once" /\ frame[d].m = m

\* rand.Read(m.secret) fills the slice; the Once is done, its mutex free
RandReadOk(c) ==
    LET m == frame[c].m IN
    /\ pc[c] = "read"
    /\ \E r \in RandBytes :
            mem' = [mem EXCEPT ![GenRef(m)] = Repeat(r, SecretLen)]
    /\ onceDone' = [onceDone EXCEPT ![m] = TRUE]
    /\ onceM' = [onceM EXCEPT ![m] = NONE]
    /\ raced' = [raced EXCEPT ![m] = @ \/ Waiting(m)]
    /\ pc' = [pc EXCEPT ![c] = "mac"]
    /\ UNCHANGED <<localZone, elapsed, ctor, arg, secret, genCount, written,
                   frame, last, calls, issued, macLog, codec>>

\* rand.Read(m.secret) fails after n bytes: the function panics; the Once
\* is marked done and its mutex freed as the panic unwinds, and the call
\* ends without a return value
RandReadFails(c) ==
    LET m == frame[c].m IN
    /\ pc[c] = "read"
    /\ \E w \in PartialReads :
            mem' = [mem EXCEPT ![GenRef(m)] =
                        w \o Repeat(0, SecretLen - Len(w))]
    /\ onceDone' = [onceDone EXCEPT ![m] = TRUE]
    /\ onceM' = [onceM EXCEPT ![m] = NONE]
    /\ raced' = [raced EXCEPT ![m] = @ \/ Waiting(m)]
    /\ Return(c, [NoResult EXCEPT !.op = frame[c].op, !.m = m,
                                   !.inTok = frame[c].tok,
                                   !.str = frame[c].str,
                                   !.at = frame[c].at,
                                   !.err = Panicked])
    /\ UNCHANGED <<localZone, elapsed, ctor, arg, secret, genCount, written,
                   calls, issued, macLog, codec>>

\* the rest of createSignature and of the call that ran it: Sign and
\* Generate return the token with its signature; Verify and VerifyString
\* compare the token's signature with the one computed (hmac.Equal)
Mac(c) ==
    LET f   == frame[c]
        m   == f.m
        key == mem[secret[m]]
        sig == createSignature(key, f.tok.Data, f.tok.Expiry)
    IN
    /\ pc[c] = "mac"
    /\ macLog' = macLog \cup {[m |-> m, key |-> key]}
    /\ IF f.op \in {"Sign", "Generate"}
        THEN LET t == [f.tok EXCEPT !.Signature = sig] IN
             /\ Return(c, [op |-> f.op, m |-> m, inTok |-> f.tok,
                           str |-> <<>>, at |-> ZeroTime, tok |-> t,
                           err |-> NoErr])
             /\ issued' = issued \cup {[m |-> m, tok |-> t]}
        ELSE LET sigOK == Equal(f.tok.Signature, sig) IN
             /\ Return(c, [op |-> f.op, m |-> m, inTok |-> f.tok,
                           str |-> f.str, at |-> f.at, tok |-> f.tok,
                           err |-> IF sigOK THEN NoErr
                                   ELSE ErrVerifySignature])
             /\ UNCHANGED issued
    /\ UNCHANGED <<localZone, elapsed, mintVars, calls, raced, codec>>

\* time passes
Tick ==
    /\ elapsed < MaxTicks
    /\ elapsed' = elapsed + 1
    /\ UNCHANGED <<localZone, mintVars, callVars, codec>>

(***************************************************************************)
(* What the callers pass.                                                  *)
(***************************************************************************)
\* a token as a caller may have changed it: the expiry moved on, the first
\* byte of the payload dropped, the signature emptied
Altered(t) ==
    {[t EXCEPT !.Expiry = Add(@, d)] : d \in Increments}
    \cup {[t EXCEPT !.Data = Tail(@)] : x \in {1} \cap {Len(t.Data)}}
    \cup {[t EXCEPT !.Signature = <<>>]}

\* tokens no Mint signed
Forged == {[Data |-> <<>>, Expiry |-> e, Signature |-> <<1>>] : e \in Expiries}

\* the tokens given to Verify: those issued, as they are or altered, and
\* the forged ones
VerifyInputs ==
    UNION {{i.tok} \cup Altered(i.tok) : i \in issued} \cup Forged

\* strings that are no serialization of a token: no, one and three
\* separators; every field bad; a bad expiry before a bad signature; a
\* bad signature alone
TS == <<"2","0","2","4","1","0","2","5","2","3","4","6","4","1">>
Malformed ==
    { <<>>,
      <<"A","A",".">> \o TS,
      <<"A",".","B",".","C",".","D">>,
      <<"!",".","x",".","!">>,
      <<"A","A",".","x",".","!">>,
      <<"A","A",".">> \o TS \o <<".","!">> }

\* strings that FromString reads although no Token.String() writes them:
\* a fraction after the seconds, a line feed within a field
Lenient ==
    { <<"A","A",".">> \o TS \o <<",","5",".","A","A">>,
      <<"A","\n","A",".">> \o TS \o <<".","A","A">> }

\* more strings that are no serialization of a token: a lone character in
\* the payload, 13 digits, a 13th month, February 29th of 2023, padding
MoreMalformed ==
    { <<"A",".">> \o TS \o <<".","A","A">>,
      <<"A","A",".">> \o SubSeq(TS, 1, 13) \o <<".","A","A">>,
      <<"A","A",".","2","0","2","4","1","3","2","5","2","3","4","6","4","1",
        ".","A","A">>,
      <<"A","A",".","2","0","2","3","0","2","2","9","2","3","4","6","4","1",
        ".","A","A">>,
      <<"A","A","=","=",".">> \o TS \o <<".","A","A">> }

CodecStrings == Malformed \cup MoreMalformed \cup Lenient

\* the strings given to VerifyString
VerifyStringInputs ==
    {String(i.tok) : i \in issued} \cup CodecStrings

\* the steps of a call under way
Steps(c) ==
    \/ OnceDone(c)
    \/ OnceSecretSet(c)
    \/ OnceMakeSecret(c)
    \/ RandReadOk(c)
    \/ RandReadFails(c)
    \/ Mac(c)

\* one caller, one call after the other, over all the inputs
Next ==
    \/ \E m \in Mints :
        \/ \E data \in Payloads, e \in Expiries : Sign("c1", m, data, e)
        \/ \E n \in DataLens, e \in Expiries : Generate("c1", m, n, e)
        \/ \E b \in VerifyInputs : Verify("c1", m, b)
        \/ \E s \in VerifyStringInputs : VerifyString("c1", m, s)
    \/ Steps("c1")
    \/ Tick

\* an expiry the clock of the model does not reach: in an hour
InAnHour == Add(Start, 3600 * SubPerSec)

\* the callers at once, their calls interleaved, over few inputs
NextConc ==
    \/ \E c \in Callers, m \in Mints :
        \/ Sign(c, m, <<>>, InAnHour)
        \/ \E n \in DataLens : Generate(c, m, n, InAnHour)
        \/ \E i \in issued : Verify(c, m, i.tok)
        \/ \E i \in issued : VerifyString(c, m, String(i.tok))
    \/ \E c \in Callers : Steps(c)
    \/ Tick

\* two Mints from NewMint, one caller signing with either, and the caller
\* writing to the slices it gave
NextNewMint ==
    \/ \E m \in Mints, s \in SecretArgs : NewMint(m, s)
    \/ \E m \in Mints : CallerWrites(m)
    \/ \E m \in Mints, data \in Payloads, e \in Expiries :
            Sign("c1", m, data, e)
    \/ Steps("c1")

(***************************************************************************)
(* The codec alone: a token is serialized, or a string is given, and the   *)
(* string is parsed.                                                       *)
(***************************************************************************)
\* the 2024 change from summer time in Europe/Berlin (01:00 UTC on October
\* 27th): half an hour before it and half an hour after it the local wall
\* clock shows 02:30
BeforeChange == 1729989000
AfterChange == 1729992600

CodecTokens ==
    [Data : {<<>>, <<46>>, <<255, 0>>},
     Expiry : [sec : {StartTime, BeforeChange, AfterChange},
               sub : {0, 1}, loc : {"Local", "UTC"}],
     Signature : {<<>>, <<1, 2, 3, 4>>}]

\* t.String()
CodecString(t) ==
    /\ codec.step = "start"
    /\ codec' = [NoCodec EXCEPT !.step = "str", !.from = "token", !.tok = t,
                                !.str = String(t)]
    /\ UNCHANGED <<localZone, elapsed, mintVars, callVars>>

\* a string from elsewhere
CodecInput(s) ==
    /\ codec.step = "start"
    /\ codec' = [NoCodec EXCEPT !.step = "str", !.from = "input", !.str = s]
    /\ UNCHANGED <<localZone, elapsed, mintVars, callVars>>

\* FromString(s)
CodecFromString ==
    /\ codec.step = "str"
    /\ codec' = [codec EXCEPT !.step = "parsed", !.out = FromString(codec.str)]
    /\ UNCHANGED <<localZone, elapsed, mintVars, callVars>>

NextCodec ==
    \/ \E t \in CodecTokens : CodecString(t)
    \/ \E s \in CodecStrings : CodecInput(s)
    \/ CodecFromString

\* one Mint, the zero value or from NewMint, in either zone
InitMint ==
    /\ localZone \in ZoneNames
    /\ InitCalls
    /\ codec = NoCodec
    /\ \E k \in {"zero", "NewMint"} :
       \E s \in IF k = "zero" THEN {NIL} ELSE InitSecrets :
        /\ ctor = [m \in Mints |-> IF m = "m1" THEN k ELSE "none"]
        /\ arg = [m \in Mints |-> IF m = "m1" THEN s ELSE NIL]
        /\ secret = [m \in Mints |-> IF m = "m1" /\ s # NIL
                                        THEN ArgRef(m) ELSE NilRef]
        /\ mem = [r \in Refs |-> IF r = ArgRef("m1") /\ s # NIL
                                    THEN s ELSE <<>>]

Init == InitMint /\ calls = MaxCalls

InitConc == InitMint /\ calls = MaxConcCalls

Spec == Init /\ [][Next]_vars

SpecConc == InitConc /\ [][NextConc]_vars

InitNewMint ==
    /\ localZone = "UTC"
    /\ InitCalls
    /\ InitMints
    /\ codec = NoCodec
    /\ calls = MaxConcCalls

SpecNewMint == InitNewMint /\ [][NextNewMint]_vars

InitCodec ==
    /\ localZone \in ZoneNames
    /\ InitCalls
    /\ InitMints
    /\ codec = NoCodec
    /\ calls = 0

SpecCodec == InitCodec /\ [][NextCodec]_vars

(***************************************************************************)
(* The claims.                                                             *)
(***************************************************************************)
\* the bytes of m's secret
Key(m) == mem[secret[m]]

\* m would compute b's signature: b carries the MAC of its payload and
\* expiry under m's secret
SigOK(m, b) ==
    /\ secret[m] # NilRef
    /\ b.Signature = createSignature(Key(m), b.Data, b.Expiry)

\* m was constructed without a secret
Secretless(m) == ctor[m] # "none" /\ arg[m] = NIL

\* two times are the same instant
SameInstant(t, u) == t.sec = u.sec /\ t.sub = u.sub

AllIdle == \A c \in Callers : pc[c] = "idle"

IssuedBy(m) == {i \in issued : i.m = m}

\* C1: on a Mint made without a secret, the tokens that concurrent
\* first-use Sign and Generate calls returned are accepted by that Mint:
\* a Verify of an issued, unexpired token returns no error, a VerifyString
\* of its serialization does so whenever the parsed expiry is the token's
\* (to the second), and once every call has returned each issued token
\* carries the MAC under the Mint's one secret.
C1_ConcurrentFirstUse ==
    \A m \in Mints : Secretless(m) =>
        /\ \A i \in IssuedBy(m) :
            /\ ( /\ last.op = "Verify"
                 /\ last.m = m
                 /\ last.inTok = i.tok
                 /\ ~After(last.at, i.tok.Expiry) )
               => last.err = NoErr
            /\ ( /\ last.op = "VerifyString"
                 /\ last.m = m
                 /\ last.str = String(i.tok)
                 /\ last.at # ZeroTime
                 /\ SameInstant(last.inTok.Expiry, TruncateSecond(i.tok.Expiry))
                 /\ ~After(last.at, last.inTok.Expiry) )
               => last.err = NoErr
        /\ AllIdle => \A i \in IssuedBy(m) : SigOK(m, i.tok)

\* C1's case: a caller waited at the Once while the secret was made, two
\* tokens were issued, and a Verify of one of them has returned no error
C1_Witness ==
    \E m \in Mints :
        /\ Secretless(m)
        /\ raced[m]
        /\ Cardinality(IssuedBy(m)) >= 2
        /\ last.op = "Verify"
        /\ last.m = m
        /\ [m |-> m, tok |-> last.inTok] \in issued
        /\ last.err = NoErr

\* the secret of m is set: m holds one and nobody is making it
SecretSet(m) == secret[m] # NilRef /\ onceM[m] = NONE

\* C2: the secret is established at most once: at most one secret is
\* generated for a Mint, none for a Mint built with a secret, and a secret
\* that is set stays set with the same bytes.
C2_SecretOnce ==
    /\ [](\A m \in Mints :
            /\ genCount[m] <= 1
            /\ (ctor[m] = "NewMint" /\ arg[m] # NIL) => genCount[m] = 0)
    /\ [][\A m \in Mints :
            SecretSet(m) =>
                /\ secret'[m] = secret[m]
                /\ onceM'[m] = NONE
                /\ mem'[secret'[m]] = mem[secret[m]]]_vars

\* C2's case: callers raced for the Once of a Mint without a secret, one
\* secret was generated and MACs were computed with it
C2_Witness ==
    \E m \in Mints :
        /\ Secretless(m)
        /\ raced[m]
        /\ onceDone[m]
        /\ genCount[m] = 1
        /\ Cardinality({e \in macLog : e.m = m}) >= 1
        /\ Cardinality(IssuedBy(m)) >= 2

\* what rand.Read leaves in the secret when it succeeds
FullyRandom(k) == k \in {Repeat(r, SecretLen) : r \in RandBytes}

\* C3 as claimed: once a secret was generated for a Mint, every MAC is
\* computed with a fully written random secret.
C3_NoWeakSecret ==
    \A e \in macLog : genCount[e.m] > 0 => FullyRandom(e.key)

\* C4: Verify of a token that Sign or Generate of the same Mint returned,
\* at a time not after its expiry, returns no error and the token as it
\* was given.
C4_SignThenVerify ==
    ( /\ last.op = "Verify"
      /\ [m |-> last.m, tok |-> last.inTok] \in issued
      /\ ~After(last.at, last.inTok.Expiry) )
    => (last.err = NoErr /\ last.tok = last.inTok)

\* C4's case: a token with the empty payload verified at the very instant
\* of its expiry
C4_Witness ==
    /\ last.op = "Verify"
    /\ [m |-> last.m, tok |-> last.inTok] \in issued
    /\ last.inTok.Data = <<>>
    /\ SameInstant(last.at, last.inTok.Expiry)
    /\ last.err = NoErr

\* the token whose expiry, moved on by d, gives b
Earlier(b, d) == [b EXCEPT !.Expiry = Add(@, -d)]

\* the Mint of the last call accepts t at the time of that call
LastAccepts(t) == SigOK(last.m, t) /\ ~After(last.at, t.Expiry)

\* C5 as claimed: a token the Mint accepts, its expiry moved on by any
\* amount, fails Verify with ErrVerifySignature.
C5_AnyIncrement ==
    last.op = "Verify" =>
        \A d \in Increments :
            LastAccepts(Earlier(last.inTok, d))
                => last.err = ErrVerifySignature

\* C5 amended: a token the Mint accepts, its expiry moved on into another
\* whole second, fails Verify with ErrVerifySignature.
C5_IncrementOfSeconds ==
    last.op = "Verify" =>
        \A d \in Increments :
            ( /\ LastAccepts(Earlier(last.inTok, d))
              /\ Unix(Earlier(last.inTok, d).Expiry) # Unix(last.inTok.Expiry) )
                => last.err = ErrVerifySignature

\* C5's case: an issued token, its expiry moved into the next second, was
\* refused for its signature
C5_Witness ==
    /\ last.op = "Verify"
    /\ last.err = ErrVerifySignature
    /\ \E d \in Increments :
        /\ [m |-> last.m, tok |-> Earlier(last.inTok, d)] \in issued
        /\ LastAccepts(Earlier(last.inTok, d))
        /\ Unix(Earlier(last.inTok, d).Expiry) # Unix(last.inTok.Expiry)

\* C6: Verify of a token whose expiry is before the clock returns
\* ErrVerifyExpiry, whatever its signature, and no Verify of such a token
\* is ever inside createSignature; a token whose expiry is the clock's
\* instant is not refused as expired.
C6_ExpiryFirst ==
    /\ last.op = "Verify" =>
        /\ After(last.at, last.inTok.Expiry) => last.err = ErrVerifyExpiry
        /\ SameInstant(last.at, last.inTok.Expiry)
            => last.err # ErrVerifyExpiry
    /\ \A c \in Callers :
        (pc[c] # "idle" /\ frame[c].op \in {"Verify", "VerifyString"})
            => ~After(frame[c].at, frame[c].tok.Expiry)

\* C6's case: an expired token with a valid signature was refused as
\* expired
C6_Witness ==
    /\ last.op = "Verify"
    /\ After(last.at, last.inTok.Expiry)
    /\ SigOK(last.m, last.inTok)
    /\ last.err = ErrVerifyExpiry

\* C7 as claimed: for a token t the Mint issued, VerifyString(t.String())
\* at a time when Verify(t) succeeds returns no error and a token with
\* t's payload and signature.
C7_StringLikeToken ==
    \A i \in issued :
        ( /\ last.op = "VerifyString"
          /\ last.m = i.m
          /\ last.str = String(i.tok)
          /\ SigOK(i.m, i.tok)
          /\ ~After(last.at, i.tok.Expiry) )
        => /\ last.err = NoErr
           /\ last.tok.Data = i.tok.Data
           /\ last.tok.Signature = i.tok.Signature

\* C8 as claimed: FromString(t.String()) returns no error and t's payload,
\* t's signature and the instant of t's expiry truncated to the second.
C8_RoundTrip ==
    (codec.step = "parsed" /\ codec.from = "token") =>
        /\ codec.out.err = NoErr
        /\ codec.out.tok.Data = codec.tok.Data
        /\ codec.out.tok.Signature = codec.tok.Signature
        /\ SameInstant(codec.out.tok.Expiry, TruncateSecond(codec.tok.Expiry))

\* two tokens of two Mints for one payload and one expiry
SamePair(i, j) ==
    /\ i.m # j.m
    /\ i.tok.Data = j.tok.Data
    /\ i.tok.Expiry = j.tok.Expiry

\* C9 as claimed: two Mints built by NewMint with the same secret
\* argument return the same token for the same payload and expiry.
C9_SameArgument ==
    \A i, j \in issued :
        ( /\ SamePair(i, j)
          /\ ctor[i.m] = "NewMint" /\ ctor[j.m] = "NewMint"
          /\ arg[i.m] = arg[j.m] )
        => i.tok = j.tok

\* C9 amended: two Mints built by NewMint with the same secret, not nil,
\* return the same token for the same payload and expiry as long as the
\* caller has not written to the slices it gave.
C9_SameSecret ==
    \A i, j \in issued :
        ( /\ SamePair(i, j)
          /\ ctor[i.m] = "NewMint" /\ ctor[j.m] = "NewMint"
          /\ arg[i.m] = arg[j.m]
          /\ arg[i.m] # NIL
          /\ ~written[i.m] /\ ~written[j.m] )
        => i.tok = j.tok

\* C9's case: two Mints with the same secret have signed the same payload
\* and expiry
C9_Witness ==
    \E i, j \in issued :
        /\ SamePair(i, j)
        /\ ctor[i.m] = "NewMint" /\ ctor[j.m] = "NewMint"
        /\ arg[i.m] = arg[j.m]
        /\ arg[i.m] # NIL
        /\ Len(arg[i.m]) > 0
        /\ ~written[i.m] /\ ~written[j.m]
        /\ i.tok = j.tok

\* a field that is no unpadded URL-safe base64: a character that is neither
\* of the alphabet nor a line break, or a number of characters of the
\* alphabet that leaves one over a multiple of four
Bad64(p) ==
    \/ \E k \in 1..Len(p) : p[k] \notin Range(encodeURL) \cup {"\n", "\r"}
    \/ Cardinality({k \in 1..Len(p) : p[k] \in Range(encodeURL)}) % 4 = 1

Num2(p, k) == DigitVal(p[k]) * 10 + DigitVal(p[k + 1])

\* a field that is a timestamp: 14 digits that are a date and a time of
\* day, alone or followed by a comma or period and digits
GoodStamp(p) ==
    /\ Len(p) >= 14
    /\ \A k \in 1..14 : p[k] \in Range(digits)
    /\ Num2(p, 5) \in 1..12
    /\ Num2(p, 7) \in 1..daysIn(Num2(p, 5), Num2(p, 1) * 100 + Num2(p, 3))
    /\ Num2(p, 9) <= 23
    /\ Num2(p, 11) <= 59
    /\ Num2(p, 13) <= 59
    /\ \/ Len(p) = 14
       \/ /\ Len(p) >= 16
          /\ p[15] \in {",", "."}
          /\ \A k \in 16..Len(p) : p[k] \in Range(digits)

\* the error the claim assigns to a string
ExpectedParseErr(s) ==
    IF Cardinality({k \in 1..Len(s) : s[k] = "."}) # 2 THEN ErrParseFormat
    ELSE IF Bad64(Split(s)[1]) THEN ErrParseData
    ELSE IF ~GoodStamp(Split(s)[2]) THEN ErrParseExpiry
    ELSE IF Bad64(Split(s)[3]) THEN ErrParseSignature
    ELSE NoErr

ParseErrs == {ErrParseFormat, ErrParseData, ErrParseExpiry, ErrParseSignature}

====
